---- MODULE Spec2Model ----
(***************************************************************************)
(* A model of the TCP engine of net/tcpengine.go: handler registration,   *)
(* the command dispatcher OnMessage with its shutdown gate and in-flight   *)
(* counter, the RPC sub-dispatcher onRpcMethod, the frame reader RecvMsg   *)
(* and BroadCast.                                                          *)
(***************************************************************************)
EXTENDS Integers, Sequences, FiniteSets, TLC

(***************************************************************************)
(* Program constants.  They are declared outside tcpengine.go; the engine  *)
(* only compares against them.  The layout keeps the reserved codes above  *)
(* the user maximum, scaled down to small numbers.                         *)
(***************************************************************************)
CmdUserMax == 2
CmdPing == 3
CmdPing2 == 4
CmdSetReaIp == 5
CmdRpcMethod == 6
CmdRpcError == 7
DEFAULT_MESSAGE_HEAD_LEN == 16
DefaultSockPackMaxLen == 18
DefaultSockKeepalive == FALSE

(***************************************************************************)
(* Bounds of the model.                                                    *)
(***************************************************************************)
MaxInstalled == 2
MaxCmd == 8
MaxAsync == 1
MaxBodyLen == 3
MaxDataLen == 3
MaxHooks == 3

Cmds == 1..MaxCmd
HandlerIds == {"h1", "h2"}
Clients == {"c1", "c2"}
Conns == {"c1", "c2", "c3"}

Rep(b, n) == [i \in 1..n |-> b]

(* Method names, as byte strings: "a", and a name of the longest length the *)
(* trailing length byte can select.                                         *)
NameA == <<97>>
Name127 == Rep(97, 127)
MethodNames == {NameA, Name127}

VARIABLES
    running,            \* engine.running
    handlers,           \* engine.handlers: cmd -> handler
    rpcMethodHandlers,  \* engine.rpcMethodHandlers: nil, or method -> handler
    onMsgHandler,       \* engine.onMsgHandler: "nil" or the override
    wg,                 \* the counter of the embedded sync.WaitGroup
    fault,              \* the panic the last call on the engine raised, or "none"
    pc,                 \* per connection: where its receive thread is in OnMessage
    cur,                \* per connection: the message of its current or last OnMessage call
    out,                \* per connection: what that call did (handlers invoked, replies sent)
    asyncBodies,        \* handler bodies launched by util.Go and still running
    drain,              \* the drain routine: "idle", "waiting" or "done"
    atFlip,             \* per connection: its synchronous handler ran when the flag was cleared
                        \* ("executing"), and has returned since ("returned"); else "no"
                        \* and has not returned yet
    sockMaxPackLen,     \* engine.sockMaxPackLen
    recvHandler,        \* engine.recvHandler: "nil" or the override
    recv,               \* the last RecvMsg call: what the connection gave and what the call did
    clients,            \* engine.clients
    mu,                 \* the embedded sync.RWMutex: "free" or its holder
    bc,                 \* the BroadCast call in progress or last made
    stopped,            \* the connections the engine has stopped with client.Stop()
    sendHandler,        \* engine.sendHandler: "nil" or the override
    send,               \* the last Send call: what the connection gave and what the call did
    onNewConnHandler,   \* engine.onNewConnHandler: "nil" or the override
    sockKeepAlive,      \* engine.sockKeepAlive
    newconn,            \* the last OnNewConn call
    onDisconnectedHandler,  \* engine.onDisconnectedHandler: the chain of closures, innermost first
    disc                \* the last OnDisconnected call

vars == <<running, handlers, rpcMethodHandlers, onMsgHandler, wg, fault,
          pc, cur, out, asyncBodies, drain, atFlip,
          sockMaxPackLen, recvHandler, recv, clients, mu, bc,
          stopped, sendHandler, send, onNewConnHandler, sockKeepAlive, newconn,
          onDisconnectedHandler, disc>>

engineVars == <<running, handlers, rpcMethodHandlers, onMsgHandler, fault>>
threadVars == <<pc, cur, out, wg, asyncBodies>>
drainVars == <<drain, atFlip>>
dispatchVars == <<engineVars, threadVars, drainVars>>
recvVars == <<sockMaxPackLen, recvHandler, recv>>
registryVars == <<clients, mu, bc>>
sendVars == <<stopped, sendHandler, send>>
newConnVars == <<onNewConnHandler, sockKeepAlive, newconn>>
hookVars == <<onDisconnectedHandler, disc>>
connVars == <<sendVars, newConnVars, hookVars>>

(***************************************************************************)
(* Messages.  data is the header followed by the body; Body() is what      *)
(* follows the header.                                                     *)
(***************************************************************************)
Header == Rep(0, DEFAULT_MESSAGE_HEAD_LEN)

NewRpcMessage(cmd, seq, body) == [cmd |-> cmd, rpcSeq |-> seq, data |-> Header \o body]

NewMessage(cmd, body) == NewRpcMessage(cmd, 0, body)

Body(msg) == SubSeq(msg.data, DEFAULT_MESSAGE_HEAD_LEN + 1, Len(msg.data))

ping2Msg == NewMessage(CmdPing2, <<>>)

ErrText(what, arg) == [what |-> what, arg |-> arg]

(***************************************************************************)
(* Registration.                                                           *)
(***************************************************************************)
NoHandlers == [c \in {} |-> 0]

NilRpcMethodHandlers == [nil |-> TRUE, tab |-> [m \in {} |-> 0]]

(* Handle without its check for a handler that exists. *)
HandleFault_NoExists(hs, cmd) ==
    IF cmd = CmdPing THEN "ErrorReservedCmdPing"
    ELSE IF cmd = CmdSetReaIp THEN "ErrorReservedCmdSetRealip"
    ELSE IF cmd = CmdRpcMethod THEN "ErrorReservedCmdRpcMethod"
    ELSE IF cmd = CmdRpcError THEN "ErrorReservedCmdRpcError"
    ELSE IF cmd > CmdUserMax THEN "ErrorReservedCmdInternal"
    ELSE "none"

(* The checks of Handle, in the order of the code; "none" when all pass. *)
HandleFault(hs, cmd) ==
    IF cmd = CmdPing THEN "ErrorReservedCmdPing"
    ELSE IF cmd = CmdSetReaIp THEN "ErrorReservedCmdSetRealip"
    ELSE IF cmd = CmdRpcMethod THEN "ErrorReservedCmdRpcMethod"
    ELSE IF cmd = CmdRpcError THEN "ErrorReservedCmdRpcError"
    ELSE IF cmd > CmdUserMax THEN "ErrorReservedCmdInternal"
    ELSE IF cmd \in DOMAIN hs THEN "HandleExists"
    ELSE "none"

(* HandleRpcCmd without its check against CmdUserMax. *)
HandleRpcCmdFault_NoCeiling(hs, cmd) ==
    IF cmd = CmdPing THEN "ErrorReservedCmdPing"
    ELSE IF cmd = CmdSetReaIp THEN "ErrorReservedCmdSetRealip"
    ELSE IF cmd = CmdRpcMethod THEN "ErrorReservedCmdRpcMethod"
    ELSE IF cmd = CmdRpcError THEN "ErrorReservedCmdRpcError"
    ELSE IF cmd \in DOMAIN hs THEN "HandleRpcCmdExists"
    ELSE "none"

(* The checks of HandleRpcCmd, in the order of the code. *)
HandleRpcCmdFault(hs, cmd) ==
    IF cmd = CmdPing THEN "ErrorReservedCmdPing"
    ELSE IF cmd = CmdSetReaIp THEN "ErrorReservedCmdSetRealip"
    ELSE IF cmd = CmdRpcMethod THEN "ErrorReservedCmdRpcMethod"
    ELSE IF cmd = CmdRpcError THEN "ErrorReservedCmdRpcError"
    ELSE IF cmd > CmdUserMax THEN "ErrorReservedCmdInternal"
    ELSE IF cmd \in DOMAIN hs THEN "HandleRpcCmdExists"
    ELSE "none"

UserHandler(h) == [kind |-> "user", fn |-> h, async |-> FALSE]

RpcCmdHandler(h, async) == [kind |-> "rpccmd", fn |-> h, async |-> async]

OnRpcMethodHandler == [kind |-> "onRpcMethod", fn |-> "onRpcMethod", async |-> FALSE]

(* engine.handlers after Handle(cmd, h) *)
HandleInstall(hs, cmd, h) ==
    IF HandleFault(hs, cmd) = "none" THEN (cmd :> UserHandler(h)) @@ hs ELSE hs

(* engine.handlers after HandleRpcCmd(cmd, h, async) *)
HandleRpcCmdInstall(hs, cmd, h, async) ==
    IF HandleRpcCmdFault(hs, cmd) = "none" THEN (cmd :> RpcCmdHandler(h, async)) @@ hs ELSE hs

(* initRpcHandler: engine.rpcMethodHandlers and engine.handlers after it *)
InitRpcTable(rpc) == IF rpc.nil THEN [nil |-> FALSE, tab |-> [m \in {} |-> 0]] ELSE rpc

InitRpcHandlers(rpc, hs) ==
    IF rpc.nil THEN (CmdRpcMethod :> OnRpcMethodHandler) @@ [c \in DOMAIN hs \ {CmdRpcMethod} |-> hs[c]]
    ELSE hs

(* HandleRpcMethod without its check for a method that exists. *)
HandleRpcMethodFault_NoExists(rpc, method) == "none"

HandleRpcMethodFault(rpc, method) ==
    IF method \in DOMAIN InitRpcTable(rpc).tab THEN "HandleRpcMethodExists" ELSE "none"

(* The optional argument of HandleRpcMethod: absent, a bool, or another value. *)
AsyncArgs == {"absent", "true", "false", "other"}

(* HandleRpcMethod that is synchronous only when told so. *)
AsyncOf_UnlessFalse(args) == args # "false"

AsyncOf(args) == args = "true"

(* engine.rpcMethodHandlers after HandleRpcMethod(method, h, args...) *)
HandleRpcMethodInstall(rpc, method, h, args) ==
    LET r == InitRpcTable(rpc) IN
    IF HandleRpcMethodFault(rpc, method) = "none"
    THEN [r EXCEPT !.tab = (method :> [fn |-> h, async |-> AsyncOf(args)]) @@ r.tab]
    ELSE r

(* The handler tables are plain maps, written without a lock: they are      *)
(* configured before the first message is dispatched.                       *)
Configuring == \A t \in Clients : out[t].gate = "none"

(* The handlers installed by registration calls: the bound of the model is  *)
(* on their number; a registration that fails is always possible.           *)
Installed(hs, rpc, onMsg) ==
    Cardinality(DOMAIN hs \ {CmdRpcMethod}) + Cardinality(DOMAIN rpc.tab)
        + (IF onMsg = "nil" THEN 0 ELSE 1)

Handle(cmd, h) ==
    /\ Configuring
    /\ fault' = HandleFault(handlers, cmd)
    /\ handlers' = HandleInstall(handlers, cmd, h)
    /\ Installed(handlers', rpcMethodHandlers, onMsgHandler) <= MaxInstalled
    /\ UNCHANGED <<running, rpcMethodHandlers, onMsgHandler, threadVars, drainVars, recvVars, registryVars, connVars>>

HandleRpcCmd(cmd, h, async) ==
    /\ Configuring
    /\ fault' = HandleRpcCmdFault(handlers, cmd)
    /\ handlers' = HandleRpcCmdInstall(handlers, cmd, h, async)
    /\ Installed(handlers', rpcMethodHandlers, onMsgHandler) <= MaxInstalled
    /\ UNCHANGED <<running, rpcMethodHandlers, onMsgHandler, threadVars, drainVars, recvVars, registryVars, connVars>>

HandleRpcMethod(method, h, args) ==
    /\ Configuring
    /\ fault' = HandleRpcMethodFault(rpcMethodHandlers, method)
    /\ handlers' = InitRpcHandlers(rpcMethodHandlers, handlers)
    /\ rpcMethodHandlers' = HandleRpcMethodInstall(rpcMethodHandlers, method, h, args)
    /\ Installed(handlers', rpcMethodHandlers', onMsgHandler) <= MaxInstalled
    /\ UNCHANGED <<running, onMsgHandler, threadVars, drainVars, recvVars, registryVars, connVars>>

HandleMessage(h) ==
    /\ Configuring
    /\ fault' = "none"
    /\ onMsgHandler' = h
    /\ Installed(handlers, rpcMethodHandlers, onMsgHandler') <= MaxInstalled
    /\ UNCHANGED <<running, handlers, rpcMethodHandlers, threadVars, drainVars, recvVars, registryVars, connVars>>

(***************************************************************************)
(* The RPC sub-dispatcher.                                                 *)
(***************************************************************************)
Invocation(kind, fn, method, client, msg) ==
    [kind |-> kind, fn |-> fn, method |-> method, client |-> client, msg |-> msg]

(* What one dispatch does: where the thread goes next, the handlers it      *)
(* invokes inline, the bodies it launches with util.Go, the messages it     *)
(* sends to the connection with SendMsg, and the lookups it makes in        *)
(* engine.handlers.                                                         *)
Effect(next, invoked, launched, sent, lookups) ==
    [next |-> next, invoked |-> invoked, launched |-> launched, sent |-> sent,
     lookups |-> lookups]

(* Add(1) is called when the lookup in engine.handlers finds a handler. *)
Adds(hs, onMsg, msg) ==
    IF onMsg = "nil" /\ msg.cmd \notin {CmdPing, CmdPing2} /\ msg.cmd \in DOMAIN hs THEN 1 ELSE 0

RpcError(msg, text) ==
    Effect("idle", <<>>, <<>>, <<[NewRpcMessage(CmdRpcError, msg.rpcSeq, <<>>) EXCEPT !.data = text]>>, 1)

(* onRpcMethod that returns without a reply when the body is too short. *)
onRpcMethod_ShortSilent(rpc, client, msg) ==
    LET data == Body(msg)
        n == Len(data)
    IN  IF n < 2 THEN Effect("idle", <<>>, <<>>, <<>>, 1)
        ELSE LET methodLen == data[n] IN
             IF methodLen <= 0 \/ methodLen >= 128 \/ n - 1 < methodLen
             THEN RpcError(msg, ErrText("invalid rpc method length", <<methodLen>>))
             ELSE LET method == SubSeq(data, n - methodLen, n - 1) IN
                  IF method \notin DOMAIN rpc.tab
                  THEN RpcError(msg, ErrText("invalid rpc method", method))
                  ELSE LET handler == rpc.tab[method]
                           trimmed == [msg EXCEPT !.data = SubSeq(msg.data, 1, Len(msg.data) - 1 - methodLen)]
                           call == Invocation("rpc", handler.fn, method, client, trimmed)
                       IN  IF handler.async
                           THEN Effect("idle", <<>>, <<call>>, <<>>, 1)
                           ELSE Effect("handler", <<call>>, <<>>, <<>>, 1)

(* onRpcMethod that cuts the method name off the body and leaves the length *)
(* byte's worth of payload: the truncation is short by one.                 *)
onRpcMethod_TrimShort(rpc, client, msg) ==
    LET data == Body(msg)
        n == Len(data)
    IN  IF n < 2 THEN RpcError(msg, ErrText("invalid rpc payload", <<>>))
        ELSE LET methodLen == data[n] IN
             IF methodLen <= 0 \/ methodLen >= 128 \/ n - 1 < methodLen
             THEN RpcError(msg, ErrText("invalid rpc method length", <<methodLen>>))
             ELSE LET method == SubSeq(data, n - methodLen, n - 1) IN
                  IF method \notin DOMAIN rpc.tab
                  THEN RpcError(msg, ErrText("invalid rpc method", method))
                  ELSE LET handler == rpc.tab[method]
                           trimmed == [msg EXCEPT !.data = SubSeq(msg.data, 1, Len(msg.data) - methodLen)]
                           call == Invocation("rpc", handler.fn, method, client, trimmed)
                       IN  IF handler.async
                           THEN Effect("idle", <<>>, <<call>>, <<>>, 1)
                           ELSE Effect("handler", <<call>>, <<>>, <<>>, 1)

(* onRpcMethod that rejects a name with nothing before it: the comparison   *)
(* of the bytes before the length byte with methodLen is not strict.        *)
onRpcMethod_ExactRejected(rpc, client, msg) ==
    LET data == Body(msg)
        n == Len(data)
    IN  IF n < 2 THEN RpcError(msg, ErrText("invalid rpc payload", <<>>))
        ELSE LET methodLen == data[n] IN
             IF methodLen <= 0 \/ methodLen >= 128 \/ n - 1 <= methodLen
             THEN RpcError(msg, ErrText("invalid rpc method length", <<methodLen>>))
             ELSE LET method == SubSeq(data, n - methodLen, n - 1) IN
                  IF method \notin DOMAIN rpc.tab
                  THEN RpcError(msg, ErrText("invalid rpc method", method))
                  ELSE LET handler == rpc.tab[method]
                           trimmed == [msg EXCEPT !.data = SubSeq(msg.data, 1, Len(msg.data) - 1 - methodLen)]
                           call == Invocation("rpc", handler.fn, method, client, trimmed)
                       IN  IF handler.async
                           THEN Effect("idle", <<>>, <<call>>, <<>>, 1)
                           ELSE Effect("handler", <<call>>, <<>>, <<>>, 1)

(* onRpcMethod that returns without a reply when the method is unknown. *)
onRpcMethod_UnknownSilent(rpc, client, msg) ==
    LET data == Body(msg)
        n == Len(data)
    IN  IF n < 2 THEN RpcError(msg, ErrText("invalid rpc payload", <<>>))
        ELSE LET methodLen == data[n] IN
             IF methodLen <= 0 \/ methodLen >= 128 \/ n - 1 < methodLen
             THEN RpcError(msg, ErrText("invalid rpc method length", <<methodLen>>))
             ELSE LET method == SubSeq(data, n - methodLen, n - 1) IN
                  IF method \notin DOMAIN rpc.tab
                  THEN Effect("idle", <<>>, <<>>, <<>>, 1)
                  ELSE LET handler == rpc.tab[method]
                           trimmed == [msg EXCEPT !.data = SubSeq(msg.data, 1, Len(msg.data) - 1 - methodLen)]
                           call == Invocation("rpc", handler.fn, method, client, trimmed)
                       IN  IF handler.async
                           THEN Effect("idle", <<>>, <<call>>, <<>>, 1)
                           ELSE Effect("handler", <<call>>, <<>>, <<>>, 1)

(* msg.data when onRpcMethod has returned or calls the method's handler:    *)
(* the truncation is the one statement that writes it.                      *)
onRpcMethodData(rpc, msg) ==
    LET data == Body(msg)
        n == Len(data)
    IN  IF n < 2 THEN msg.data
        ELSE LET methodLen == data[n] IN
             IF methodLen <= 0 \/ methodLen >= 128 \/ n - 1 < methodLen THEN msg.data
             ELSE LET method == SubSeq(data, n - methodLen, n - 1) IN
                  IF method \notin DOMAIN rpc.tab THEN msg.data
                  ELSE SubSeq(msg.data, 1, Len(msg.data) - 1 - methodLen)

(* onRpcMethod(client, msg), reached through engine.handlers[CmdRpcMethod] *)
onRpcMethod(rpc, client, msg) ==
    LET data == Body(msg)
        n == Len(data)
    IN  IF n < 2 THEN RpcError(msg, ErrText("invalid rpc payload", <<>>))
        ELSE LET methodLen == data[n] IN
             IF methodLen <= 0 \/ methodLen >= 128 \/ n - 1 < methodLen
             THEN RpcError(msg, ErrText("invalid rpc method length", <<methodLen>>))
             ELSE LET method == SubSeq(data, n - methodLen, n - 1) IN
                  IF method \notin DOMAIN rpc.tab
                  THEN RpcError(msg, ErrText("invalid rpc method", method))
                  ELSE LET handler == rpc.tab[method]
                           trimmed == [msg EXCEPT !.data = SubSeq(msg.data, 1, Len(msg.data) - 1 - methodLen)]
                           call == Invocation("rpc", handler.fn, method, client, trimmed)
                       IN  IF handler.async
                           THEN Effect("idle", <<>>, <<call>>, <<>>, 1)
                           ELSE Effect("handler", <<call>>, <<>>, <<>>, 1)

(***************************************************************************)
(* The command dispatcher: OnMessage after the running flag was read true. *)
(***************************************************************************)
Dispatch_PingDiscarded(onMsg, hs, rpc, client, msg) ==
    IF onMsg # "nil"
    THEN Effect("override", <<Invocation("override", onMsg, <<>>, client, msg)>>, <<>>, <<>>, 0)
    ELSE IF msg.cmd = CmdPing \/ msg.cmd = CmdPing2 THEN Effect("idle", <<>>, <<>>, <<>>, 0)
    ELSE IF msg.cmd \in DOMAIN hs
    THEN LET handler == hs[msg.cmd] IN
         IF handler.kind = "onRpcMethod" THEN onRpcMethod(rpc, client, msg)
         ELSE IF handler.kind = "rpccmd" /\ handler.async
         THEN Effect("idle", <<>>, <<Invocation("rpccmd", handler.fn, <<>>, client, msg)>>, <<>>, 1)
         ELSE Effect("handler", <<Invocation(handler.kind, handler.fn, <<>>, client, msg)>>, <<>>, <<>>, 1)
    ELSE Effect("idle", <<>>, <<>>, <<>>, 1)

(* OnMessage that answers a keepalive before it looks for the override. *)
Dispatch_KeepaliveFirst(onMsg, hs, rpc, client, msg) ==
    IF msg.cmd = CmdPing THEN Effect("idle", <<>>, <<>>, <<ping2Msg>>, 0)
    ELSE IF msg.cmd = CmdPing2 THEN Effect("idle", <<>>, <<>>, <<>>, 0)
    ELSE IF onMsg # "nil"
    THEN Effect("override", <<Invocation("override", onMsg, <<>>, client, msg)>>, <<>>, <<>>, 0)
    ELSE IF msg.cmd \in DOMAIN hs
    THEN LET handler == hs[msg.cmd] IN
         IF handler.kind = "onRpcMethod" THEN onRpcMethod(rpc, client, msg)
         ELSE IF handler.kind = "rpccmd" /\ handler.async
         THEN Effect("idle", <<>>, <<Invocation("rpccmd", handler.fn, <<>>, client, msg)>>, <<>>, 1)
         ELSE Effect("handler", <<Invocation(handler.kind, handler.fn, <<>>, client, msg)>>, <<>>, <<>>, 1)
    ELSE Effect("idle", <<>>, <<>>, <<>>, 1)

Dispatch(onMsg, hs, rpc, client, msg) ==
    IF onMsg # "nil"
    THEN Effect("override", <<Invocation("override", onMsg, <<>>, client, msg)>>, <<>>, <<>>, 0)
    ELSE IF msg.cmd = CmdPing THEN Effect("idle", <<>>, <<>>, <<ping2Msg>>, 0)
    ELSE IF msg.cmd = CmdPing2 THEN Effect("idle", <<>>, <<>>, <<>>, 0)
    ELSE IF msg.cmd \in DOMAIN hs
    THEN LET handler == hs[msg.cmd] IN
         IF handler.kind = "onRpcMethod" THEN onRpcMethod(rpc, client, msg)
         ELSE IF handler.kind = "rpccmd" /\ handler.async
         THEN Effect("idle", <<>>, <<Invocation("rpccmd", handler.fn, <<>>, client, msg)>>, <<>>, 1)
         ELSE Effect("handler", <<Invocation(handler.kind, handler.fn, <<>>, client, msg)>>, <<>>, <<>>, 1)
    ELSE Effect("idle", <<>>, <<>>, <<>>, 1)

NoCall ==
    [gate |-> "none", invoked |-> <<>>, launched |-> <<>>, sent |-> <<>>, lookups |-> 0,
     adds |-> 0, dones |-> 0, returned |-> "no"]

(* OnMessage with the gate that lets the reserved commands through while    *)
(* the engine is not running.                                               *)
OnMessageEnter_ReservedPass(t, m) ==
    /\ pc[t] = "idle"
    /\ cur' = [cur EXCEPT ![t] = m]
    /\ IF running \/ m.cmd \in {CmdPing, CmdSetReaIp, CmdRpcMethod, CmdRpcError}
       THEN /\ pc' = [pc EXCEPT ![t] = "dispatch"]
            /\ out' = [out EXCEPT ![t] = [NoCall EXCEPT !.gate = "open"]]
       ELSE /\ pc' = pc
            /\ out' = [out EXCEPT ![t] = [NoCall EXCEPT !.gate = "closed"]]
    /\ fault' = "none"
    /\ UNCHANGED <<running, handlers, rpcMethodHandlers, onMsgHandler, wg, asyncBodies, drainVars, recvVars, registryVars, connVars>>

(* OnMessage reads engine.running: a false flag drops the message. *)
OnMessageEnter(t, m) ==
    /\ pc[t] = "idle"
    /\ cur' = [cur EXCEPT ![t] = m]
    /\ IF running
       THEN /\ pc' = [pc EXCEPT ![t] = "dispatch"]
            /\ out' = [out EXCEPT ![t] = [NoCall EXCEPT !.gate = "open"]]
       ELSE /\ pc' = pc
            /\ out' = [out EXCEPT ![t] = [NoCall EXCEPT !.gate = "closed"]]
    /\ fault' = "none"
    /\ UNCHANGED <<running, handlers, rpcMethodHandlers, onMsgHandler, wg, asyncBodies, drainVars, recvVars, registryVars, connVars>>

(* OnMessage whose Done() is not deferred: it runs before the handler. *)
OnMessageDispatch_EarlyDone(t) ==
    /\ pc[t] = "dispatch"
    /\ LET e == Dispatch(onMsgHandler, handlers, rpcMethodHandlers, t, cur[t])
           adds == Adds(handlers, onMsgHandler, cur[t])
           dones == adds
       IN
       /\ asyncBodies + Len(e.launched) <= MaxAsync
       /\ pc' = [pc EXCEPT ![t] = e.next]
       /\ out' = [out EXCEPT ![t] = [@ EXCEPT !.invoked = e.invoked, !.launched = e.launched,
                                               !.sent = e.sent, !.lookups = e.lookups,
                                               !.adds = adds, !.dones = dones]]
       /\ wg' = wg + adds - dones
       /\ asyncBodies' = asyncBodies + Len(e.launched)
    /\ UNCHANGED <<engineVars, cur, drainVars, recvVars, registryVars, connVars>>

(* The rest of OnMessage up to the start of a synchronous handler: Add(1)   *)
(* precedes the handler; a call that ends here has run its deferred Done(). *)
OnMessageDispatch(t) ==
    /\ pc[t] = "dispatch"
    /\ LET e == Dispatch(onMsgHandler, handlers, rpcMethodHandlers, t, cur[t])
           adds == Adds(handlers, onMsgHandler, cur[t])
           dones == IF e.next = "handler" THEN 0 ELSE adds
       IN
       /\ asyncBodies + Len(e.launched) <= MaxAsync
       /\ pc' = [pc EXCEPT ![t] = e.next]
       /\ out' = [out EXCEPT ![t] = [@ EXCEPT !.invoked = e.invoked, !.launched = e.launched,
                                               !.sent = e.sent, !.lookups = e.lookups,
                                               !.adds = adds, !.dones = dones]]
       /\ wg' = wg + adds - dones
       /\ asyncBodies' = asyncBodies + Len(e.launched)
    /\ UNCHANGED <<engineVars, cur, drainVars, recvVars, registryVars, connVars>>

(* OnMessage without its deferred HandlePanic: the panic of a handler runs  *)
(* the deferred Done() and leaves OnMessage for the connection's loop.      *)
HandlerReturn_PanicEscapes(t, how) ==
    /\ pc[t] = "handler"
    /\ pc' = [pc EXCEPT ![t] = IF how = "panic" THEN "panicked" ELSE "idle"]
    /\ out' = [out EXCEPT ![t].returned = how, ![t].dones = @ + 1]
    /\ wg' = wg - 1
    /\ atFlip' = [atFlip EXCEPT ![t] = IF @ = "executing" THEN "returned" ELSE @]
    /\ UNCHANGED <<engineVars, cur, asyncBodies, drain, recvVars, registryVars, connVars>>

(* A synchronous handler returns or panics; the deferred HandlePanic and    *)
(* Done() run either way.                                                   *)
HandlerReturn(t, how) ==
    /\ pc[t] = "handler"
    /\ pc' = [pc EXCEPT ![t] = "idle"]
    /\ out' = [out EXCEPT ![t].returned = how, ![t].dones = @ + 1]
    /\ wg' = wg - 1
    /\ atFlip' = [atFlip EXCEPT ![t] = IF @ = "executing" THEN "returned" ELSE @]
    /\ UNCHANGED <<engineVars, cur, asyncBodies, drain, recvVars, registryVars, connVars>>

(* The dispatch override returns. *)
OverrideReturn(t) ==
    /\ pc[t] = "override"
    /\ pc' = [pc EXCEPT ![t] = "idle"]
    /\ out' = [out EXCEPT ![t].returned = "normal"]
    /\ UNCHANGED <<engineVars, cur, wg, asyncBodies, drainVars, recvVars, registryVars, connVars>>

(* A body launched by util.Go ends. *)
AsyncFinish ==
    /\ asyncBodies > 0
    /\ asyncBodies' = asyncBodies - 1
    /\ UNCHANGED <<engineVars, pc, cur, out, wg, drainVars, recvVars, registryVars, connVars>>

(***************************************************************************)
(* The drain routine of the server: clear the running flag, then Wait().   *)
(***************************************************************************)
DrainFlip ==
    /\ drain = "idle"
    /\ running' = FALSE
    /\ drain' = "waiting"
    /\ atFlip' = [t \in Clients |-> IF pc[t] = "handler" THEN "executing" ELSE "no"]
    /\ UNCHANGED <<handlers, rpcMethodHandlers, onMsgHandler, fault, threadVars, recvVars, registryVars, connVars>>

DrainWait ==
    /\ drain = "waiting"
    /\ wg = 0
    /\ drain' = "done"
    /\ UNCHANGED <<engineVars, threadVars, atFlip, recvVars, registryVars, connVars>>

(***************************************************************************)
(* The frame reader.  What the connection gives one RecvMsg call: the      *)
(* results of the two SetReadDeadline calls, of the read of the header, the *)
(* body length the header declares, and the results of the read of the     *)
(* body and of Decrypt.  int is 64 bits wide: the uint32 body length plus   *)
(* the header length does not overflow.                                    *)
(***************************************************************************)
Outcomes == {"ok", "err"}

RecvInputs ==
    [dl1 : Outcomes, head : Outcomes, n : 0..MaxBodyLen, dl2 : Outcomes, body : Outcomes,
     dec : Outcomes]

(* What one RecvMsg call did: whether it returned a message and of which    *)
(* raw length, the deadlines it set, the reads of header and body it made,  *)
(* the bytes it allocated for the body, its calls of Decrypt, and whether   *)
(* it left the work to engine.recvHandler.                                  *)
RecvResult(delivered, rawLen, deadlines, headReads, alloc, bodyReads, decrypts) ==
    [delivered |-> delivered, rawLen |-> rawLen, deadlines |-> deadlines,
     headReads |-> headReads, alloc |-> alloc, bodyReads |-> bodyReads,
     decrypts |-> decrypts, override |-> FALSE]

(* RecvMsg that returns the message whatever Decrypt returns. *)
RecvDecrypt_ErrorDelivered(in, dataLen, deadlines, bodyReads) ==
    RecvResult(TRUE, DEFAULT_MESSAGE_HEAD_LEN + dataLen, deadlines, 1, dataLen, bodyReads, 1)

(* RecvMsg from Decrypt on, the raw data being header and body *)
RecvDecrypt(in, dataLen, deadlines, bodyReads) ==
    IF in.dec = "err"
    THEN RecvResult(FALSE, 0, deadlines, 1, dataLen, bodyReads, 1)
    ELSE RecvResult(TRUE, DEFAULT_MESSAGE_HEAD_LEN + dataLen, deadlines, 1, dataLen, bodyReads, 1)

(* RecvMsg that reads the body whatever its declared length. *)
RecvMsgDefault_NoLimit(maxPackLen, in) ==
    IF in.dl1 = "err" THEN RecvResult(FALSE, 0, 1, 0, 0, 0, 0)
    ELSE IF in.head = "err" THEN RecvResult(FALSE, 0, 1, 1, 0, 0, 0)
    ELSE LET dataLen == in.n IN
         IF dataLen > 0
         THEN IF in.dl2 = "err" THEN RecvResult(FALSE, 0, 2, 1, 0, 0, 0)
              ELSE IF in.body = "err" THEN RecvResult(FALSE, 0, 2, 1, dataLen, 1, 0)
              ELSE RecvDecrypt(in, dataLen, 2, 1)
         ELSE RecvDecrypt(in, 0, 1, 0)

(* RecvMsg without engine.recvHandler *)
RecvMsgDefault(maxPackLen, in) ==
    IF in.dl1 = "err" THEN RecvResult(FALSE, 0, 1, 0, 0, 0, 0)
    ELSE IF in.head = "err" THEN RecvResult(FALSE, 0, 1, 1, 0, 0, 0)
    ELSE LET dataLen == in.n IN
         IF dataLen > 0
         THEN IF dataLen + DEFAULT_MESSAGE_HEAD_LEN > maxPackLen
              THEN RecvResult(FALSE, 0, 1, 1, 0, 0, 0)
              ELSE IF in.dl2 = "err" THEN RecvResult(FALSE, 0, 2, 1, 0, 0, 0)
              ELSE IF in.body = "err" THEN RecvResult(FALSE, 0, 2, 1, dataLen, 1, 0)
              ELSE RecvDecrypt(in, dataLen, 2, 1)
         ELSE RecvDecrypt(in, 0, 1, 0)

NoInput == [dl1 |-> "ok", head |-> "ok", n |-> 0, dl2 |-> "ok", body |-> "ok", dec |-> "ok"]

NoRecv ==
    [called |-> FALSE, client |-> "c1", maxPackLen |-> 0, in |-> NoInput,
     res |-> RecvResult(FALSE, 0, 0, 0, 0, 0, 0)]

RecvMsg(c, in, delivered) ==
    /\ (recvHandler # "nil" => in = NoInput)
    /\ recv' = [called |-> TRUE, client |-> c, maxPackLen |-> sockMaxPackLen, in |-> in,
                res |-> IF recvHandler # "nil"
                        THEN [RecvResult(delivered, 0, 0, 0, 0, 0, 0) EXCEPT !.override = TRUE]
                        ELSE RecvMsgDefault(sockMaxPackLen, in)]
    /\ (recvHandler = "nil" => delivered)
    /\ UNCHANGED <<sockMaxPackLen, recvHandler, dispatchVars, registryVars, connVars>>

HandleRecv(recver) ==
    /\ recvHandler' = recver
    /\ UNCHANGED <<sockMaxPackLen, recv, dispatchVars, registryVars, connVars>>

SetSockMaxPackLen(maxPackLen) ==
    /\ sockMaxPackLen' = maxPackLen
    /\ UNCHANGED <<recvHandler, recv, dispatchVars, registryVars, connVars>>

(* Values of the maximum packet length around the frames of the model. *)
PackLens ==
    {0, DEFAULT_MESSAGE_HEAD_LEN, DEFAULT_MESSAGE_HEAD_LEN + 1, DefaultSockPackMaxLen,
     DEFAULT_MESSAGE_HEAD_LEN + MaxBodyLen}

(***************************************************************************)
(* The registry and BroadCast.  BroadCast takes the write lock, ranges     *)
(* over engine.clients calling SendMsg, and unlocks on return; the server  *)
(* adds and deletes connections under the same lock.                       *)
(***************************************************************************)
NoBroadCast ==
    [state |-> "idle", msg |-> ping2Msg, snapshot |-> {}, visited |-> {}, failed |-> {},
     attempts |-> [c \in Conns |-> 0]]

BroadCastLock(msg) ==
    /\ bc.state # "sending"
    /\ mu = "free"
    /\ mu' = "BroadCast"
    /\ bc' = [NoBroadCast EXCEPT !.state = "sending", !.msg = msg, !.snapshot = clients]
    /\ UNCHANGED <<clients, dispatchVars, recvVars, connVars>>

(* The range loop that ends at the first SendMsg that fails. *)
BroadCastSend_StopOnError(c, ok) ==
    /\ bc.state = "sending"
    /\ c \in clients \ bc.visited
    /\ bc' = [bc EXCEPT !.visited = IF ok THEN @ \cup {c} ELSE clients,
                        !.attempts[c] = @ + 1,
                        !.failed = IF ok THEN @ ELSE @ \cup {c}]
    /\ UNCHANGED <<clients, mu, dispatchVars, recvVars, connVars>>

(* One iteration of the range loop: c.SendMsg(msg), its error dropped. *)
BroadCastSend(c, ok) ==
    /\ bc.state = "sending"
    /\ c \in clients \ bc.visited
    /\ bc' = [bc EXCEPT !.visited = @ \cup {c},
                        !.attempts[c] = @ + 1,
                        !.failed = IF ok THEN @ ELSE @ \cup {c}]
    /\ UNCHANGED <<clients, mu, dispatchVars, recvVars, connVars>>

(* The loop has ended: the deferred Unlock. *)
BroadCastUnlock ==
    /\ bc.state = "sending"
    /\ clients \ bc.visited = {}
    /\ mu' = "free"
    /\ bc' = [bc EXCEPT !.state = "done"]
    /\ UNCHANGED <<clients, dispatchVars, recvVars, connVars>>

(* The server registers a connection: Lock, insert, Unlock. *)
AddClient(c) ==
    /\ mu = "free"
    /\ c \notin clients
    /\ clients' = clients \cup {c}
    /\ UNCHANGED <<mu, bc, dispatchVars, recvVars, connVars>>

(* The server removes a connection: Lock, delete, Unlock. *)
DeleteClient(c) ==
    /\ mu = "free"
    /\ c \in clients
    /\ clients' = clients \ {c}
    /\ UNCHANGED <<mu, bc, dispatchVars, recvVars, connVars>>

(***************************************************************************)
(* The frame writer.  What the connection gives one Send call: the result  *)
(* of SetWriteDeadline, and the error and the byte count of Conn.Write.    *)
(***************************************************************************)
SendData == {Rep(7, k) : k \in 0..MaxDataLen}

SendInputs == [dl : Outcomes, werr : Outcomes, nwrite : 0..MaxDataLen]

(* What one Send call did: the error it returned ("nil" for none), whether  *)
(* it called client.Stop(), the deadlines it set and the writes it made.    *)
SendResult(err, stops, deadlines, writes) ==
    [err |-> err, stops |-> stops, deadlines |-> deadlines, writes |-> writes,
     override |-> FALSE]

(* Send that does not compare the byte count with len(data). *)
SendDefault_HalfAccepted(data, in) ==
    IF in.dl = "err" THEN SendResult("SetWriteDeadline", TRUE, 1, 0)
    ELSE IF in.werr = "err" THEN SendResult("Write", TRUE, 1, 1)
    ELSE SendResult("nil", FALSE, 1, 1)

(* Send without engine.sendHandler *)
SendDefault(data, in) ==
    IF in.dl = "err" THEN SendResult("SetWriteDeadline", TRUE, 1, 0)
    ELSE IF in.werr = "err" THEN SendResult("Write", TRUE, 1, 1)
    ELSE IF in.nwrite # Len(data) THEN SendResult("ErrTcpClientWriteHalf", TRUE, 1, 1)
    ELSE SendResult("nil", FALSE, 1, 1)

NoSendInput == [dl |-> "ok", werr |-> "ok", nwrite |-> 0]

NoSend ==
    [called |-> FALSE, client |-> "c1", data |-> <<>>, in |-> NoSendInput,
     res |-> SendResult("nil", FALSE, 0, 0)]

(* Send(client, data); ret is what the override returns when there is one. *)
Send(c, data, in, ret) ==
    /\ in.nwrite <= Len(data)
    /\ (sendHandler # "nil" => in = NoSendInput)
    /\ (sendHandler = "nil" => ret = "nil")
    /\ LET res == IF sendHandler # "nil"
                  THEN [SendResult(ret, FALSE, 0, 0) EXCEPT !.override = TRUE]
                  ELSE SendDefault(data, in)
       IN /\ send' = [called |-> TRUE, client |-> c, data |-> data, in |-> in, res |-> res]
          /\ stopped' = IF res.stops THEN stopped \cup {c} ELSE stopped
    /\ UNCHANGED <<sendHandler, newConnVars, hookVars, dispatchVars, recvVars, registryVars>>

HandleSend(sender) ==
    /\ sendHandler' = sender
    /\ UNCHANGED <<stopped, send, newConnVars, hookVars, dispatchVars, recvVars, registryVars>>

(***************************************************************************)
(* The socket configurator.  fails is the set of socket options whose call *)
(* on this connection returns an error.                                    *)
(***************************************************************************)
SockOptions ==
    {"SetNoDelay", "SetKeepAlive", "SetKeepAlivePeriod", "SetReadBuffer", "SetWriteBuffer",
     "SetLinger"}

(* What one OnNewConn call did: the option calls it made, in order, whether *)
(* it closed the connection, and the error it returned ("nil" for none).    *)
NewConnResult(applied, closed, err) ==
    [applied |-> applied, closed |-> closed, err |-> err, override |-> FALSE]

(* ErrExit: conn.Close() and the error of the call made last *)
ErrExit(applied) == NewConnResult(applied, TRUE, applied[Len(applied)])

(* OnNewConn that goes on to the next option when one fails and returns the *)
(* error of the last one that failed, the connection left open.             *)
OnNewConnDefault_NoAbort(keepalive, fails) ==
    LET all == <<"SetNoDelay", "SetKeepAlive">>
                \o (IF keepalive THEN <<"SetKeepAlivePeriod">> ELSE <<>>)
                \o <<"SetReadBuffer", "SetWriteBuffer", "SetLinger">>
        failed == SelectSeq(all, LAMBDA o : o \in fails)
    IN  NewConnResult(all, FALSE, IF failed = <<>> THEN "nil" ELSE failed[Len(failed)])

(* OnNewConn without engine.onNewConnHandler *)
OnNewConnDefault(keepalive, fails) ==
    LET a2 == <<"SetNoDelay", "SetKeepAlive">>
        a3 == IF keepalive THEN a2 \o <<"SetKeepAlivePeriod">> ELSE a2
    IN  IF "SetNoDelay" \in fails THEN ErrExit(<<"SetNoDelay">>)
        ELSE IF "SetKeepAlive" \in fails THEN ErrExit(a2)
        ELSE IF keepalive /\ "SetKeepAlivePeriod" \in fails THEN ErrExit(a3)
        ELSE IF "SetReadBuffer" \in fails THEN ErrExit(a3 \o <<"SetReadBuffer">>)
        ELSE IF "SetWriteBuffer" \in fails
        THEN ErrExit(a3 \o <<"SetReadBuffer", "SetWriteBuffer">>)
        ELSE IF "SetLinger" \in fails
        THEN ErrExit(a3 \o <<"SetReadBuffer", "SetWriteBuffer", "SetLinger">>)
        ELSE NewConnResult(a3 \o <<"SetReadBuffer", "SetWriteBuffer", "SetLinger">>, FALSE, "nil")

NoNewConn ==
    [called |-> FALSE, conn |-> "c1", keepalive |-> FALSE, fails |-> {}, ret |-> "nil",
     res |-> NewConnResult(<<>>, FALSE, "nil")]

(* OnNewConn(conn); ret is what the override returns when there is one. *)
OnNewConn(conn, fails, ret) ==
    /\ (onNewConnHandler # "nil" => fails = {})
    /\ (onNewConnHandler = "nil" => ret = "nil")
    /\ newconn' = [called |-> TRUE, conn |-> conn, keepalive |-> sockKeepAlive,
                   fails |-> fails, ret |-> ret,
                   res |-> IF onNewConnHandler # "nil"
                           THEN [NewConnResult(<<>>, FALSE, ret) EXCEPT !.override = TRUE]
                           ELSE OnNewConnDefault(sockKeepAlive, fails)]
    /\ UNCHANGED <<onNewConnHandler, sockKeepAlive, sendVars, hookVars, dispatchVars, recvVars,
                   registryVars>>

HandleNewConn(onNewConn) ==
    /\ onNewConnHandler' = onNewConn
    /\ UNCHANGED <<sockKeepAlive, newconn, sendVars, hookVars, dispatchVars, recvVars,
                   registryVars>>

SetSockKeepAlive(keepalive) ==
    /\ sockKeepAlive' = keepalive
    /\ UNCHANGED <<onNewConnHandler, newconn, sendVars, hookVars, dispatchVars, recvVars,
                   registryVars>>

(***************************************************************************)
(* The disconnect hooks.  HandleDisconnected wraps the handler it finds in *)
(* a closure that calls it and then the new hook, under a deferred         *)
(* HandlePanic; the chain of closures is the sequence of their hooks, the  *)
(* innermost first.  faulty is the set of hooks that panic when called.    *)
(***************************************************************************)
HookIds == {"d1", "d2", "d3"}

(* What a call of a closure did: the hooks it called, in order, and whether *)
(* a panic left it.                                                         *)
HookRun(trace, panicked) == [trace |-> trace, panicked |-> panicked]

RECURSIVE RunHooks_NoRecover(_, _)
(* The closure without its deferred HandlePanic. *)
RunHooks_NoRecover(chain, faulty) ==
    LET pre == SubSeq(chain, 1, Len(chain) - 1)
        onDisconnected == chain[Len(chain)]
        p == IF pre # <<>> THEN RunHooks_NoRecover(pre, faulty) ELSE HookRun(<<>>, FALSE)
    IN  IF p.panicked THEN p
        ELSE HookRun(Append(p.trace, onDisconnected), onDisconnected \in faulty)

RECURSIVE RunHooks(_, _)
(* The closure HandleDisconnected installs, called: pre(c) when there is    *)
(* one, then onDisconnected(c); a panic of either ends the closure and is   *)
(* recovered by its deferred HandlePanic.                                   *)
RunHooks(chain, faulty) ==
    LET pre == SubSeq(chain, 1, Len(chain) - 1)
        onDisconnected == chain[Len(chain)]
        p == IF pre # <<>> THEN RunHooks(pre, faulty) ELSE HookRun(<<>>, FALSE)
    IN  IF p.panicked THEN HookRun(p.trace, FALSE)
        ELSE HookRun(Append(p.trace, onDisconnected), FALSE)

NoDisconnected ==
    [called |-> FALSE, client |-> "c1", chain |-> <<>>, faulty |-> {}, run |-> HookRun(<<>>, FALSE)]

OnDisconnected(c, faulty) ==
    /\ disc' = [called |-> TRUE, client |-> c, chain |-> onDisconnectedHandler, faulty |-> faulty,
                run |-> IF onDisconnectedHandler # <<>>
                        THEN RunHooks(onDisconnectedHandler, faulty)
                        ELSE HookRun(<<>>, FALSE)]
    /\ UNCHANGED <<onDisconnectedHandler, sendVars, newConnVars, dispatchVars, recvVars,
                   registryVars>>

HandleDisconnected(onDisconnected) ==
    /\ Len(onDisconnectedHandler) < MaxHooks
    /\ onDisconnectedHandler' = Append(onDisconnectedHandler, onDisconnected)
    /\ UNCHANGED <<disc, sendVars, newConnVars, dispatchVars, recvVars, registryVars>>

(***************************************************************************)
(* Inputs.                                                                 *)
(***************************************************************************)
RpcBodies ==
    { <<>>, <<1>>,                          \* shorter than 2 bytes
      <<0, 0>>,                             \* length byte 0
      <<97, 1>>,                            \* "a", exactly 1 byte before the length byte
      <<9, 97, 1>>,                         \* payload 9, "a"
      <<98, 97, 2>>,                        \* "ba"
      <<97, 2>>,                            \* length 2, 1 byte before it
      <<97, 128>>,                          \* length byte above 127
      Name127 \o <<127>>,                   \* the longest name, nothing before it
      Rep(97, 126) \o <<127>>,              \* length 127, 126 bytes before it
      Rep(97, 128) \o <<128>> }             \* length 128 with 128 bytes before it

(* Commands of plain messages: the user commands, the keepalives, and one   *)
(* command that never has a handler.                                        *)
PlainMsgs == {NewMessage(c, <<>>) : c \in (1..CmdUserMax) \cup {CmdPing, CmdPing2, CmdRpcError}}

RpcMsgs ==
    {NewRpcMessage(CmdRpcMethod, 11, b) : b \in RpcBodies}
        \cup {NewRpcMessage(CmdRpcMethod, 12, b) : b \in {<<1>>, <<0, 0>>, <<97, 1>>}}

Msgs == PlainMsgs \cup RpcMsgs

(***************************************************************************)
(* The engine as NewTcpEngine leaves it, its handlers being registered     *)
(* while one connection delivers messages and the server may drain.        *)
(***************************************************************************)
InitConn ==
    /\ stopped = {}
    /\ sendHandler = "nil"
    /\ send = NoSend
    /\ onNewConnHandler = "nil"
    /\ sockKeepAlive = DefaultSockKeepalive
    /\ newconn = NoNewConn
    /\ onDisconnectedHandler = <<>>
    /\ disc = NoDisconnected

Init ==
    /\ running = TRUE
    /\ handlers = NoHandlers
    /\ rpcMethodHandlers = NilRpcMethodHandlers
    /\ onMsgHandler = "nil"
    /\ wg = 0
    /\ fault = "none"
    /\ pc = [t \in Clients |-> "idle"]
    /\ cur = [t \in Clients |-> NewMessage(CmdPing2, <<>>)]
    /\ out = [t \in Clients |-> NoCall]
    /\ asyncBodies = 0
    /\ drain = "idle"
    /\ atFlip = [t \in Clients |-> "no"]
    /\ sockMaxPackLen = DefaultSockPackMaxLen
    /\ recvHandler = "nil"
    /\ recv = NoRecv
    /\ clients = {}
    /\ mu = "free"
    /\ bc = NoBroadCast
    /\ InitConn

Register ==
    \/ \E cmd \in Cmds, h \in HandlerIds : Handle(cmd, h)
    \/ \E cmd \in Cmds, h \in HandlerIds, async \in BOOLEAN : HandleRpcCmd(cmd, h, async)
    \/ \E method \in MethodNames, h \in HandlerIds, args \in AsyncArgs : HandleRpcMethod(method, h, args)
    \/ \E h \in HandlerIds : HandleMessage(h)

Serve(T) ==
    \/ \E t \in T, m \in Msgs : OnMessageEnter(t, m)
    \/ \E t \in T : OnMessageDispatch(t)
    \/ \E t \in T, how \in {"normal", "panic"} : HandlerReturn(t, how)
    \/ \E t \in T : OverrideReturn(t)
    \/ AsyncFinish

Drain == DrainFlip \/ DrainWait

Next == Register \/ Serve({"c1"}) \/ Drain

Spec == Init /\ [][Next]_vars

(* The frame reader of an engine being configured. *)
NextRecv ==
    \/ \E in \in RecvInputs, delivered \in BOOLEAN : RecvMsg("c1", in, delivered)
    \/ \E recver \in {"nil", "h1"} : HandleRecv(recver)
    \/ \E maxPackLen \in PackLens : SetSockMaxPackLen(maxPackLen)

SpecRecv == Init /\ [][NextRecv]_vars

(* The registry of a serving engine and its broadcasts. *)
NextRegistry ==
    \/ \E msg \in {ping2Msg, NewMessage(1, <<9>>)} : BroadCastLock(msg)
    \/ \E c \in Conns, ok \in BOOLEAN : BroadCastSend(c, ok)
    \/ BroadCastUnlock
    \/ \E c \in Conns : AddClient(c)
    \/ \E c \in Conns : DeleteClient(c)

SpecRegistry == Init /\ [][NextRegistry]_vars

(* The frame writer of an engine whose connections send. *)
NextSend ==
    \/ \E c \in Clients, data \in SendData, in \in SendInputs, ret \in {"nil", "error"} :
          Send(c, data, in, ret)
    \/ \E sender \in {"nil", "h1"} : HandleSend(sender)

SpecSend == Init /\ [][NextSend]_vars

(* The socket configurator of an engine that accepts connections. *)
NextNewConn ==
    \/ \E conn \in Clients, fails \in SUBSET SockOptions, ret \in {"nil", "error"} :
          OnNewConn(conn, fails, ret)
    \/ \E onNewConn \in {"nil", "h1"} : HandleNewConn(onNewConn)
    \/ \E keepalive \in BOOLEAN : SetSockKeepAlive(keepalive)

SpecNewConn == Init /\ [][NextNewConn]_vars

(* The disconnect hooks of an engine whose connections disconnect. *)
NextDisconnected ==
    \/ \E c \in Clients, faulty \in SUBSET HookIds : OnDisconnected(c, faulty)
    \/ \E onDisconnected \in HookIds : HandleDisconnected(onDisconnected)

SpecDisconnected == Init /\ [][NextDisconnected]_vars

(***************************************************************************)
(* A configured engine that serves every connection while the server       *)
(* drains.  The engines are what registration calls leave: a user handler   *)
(* and a synchronous RPC method; an asynchronous and a synchronous command; *)
(* a dispatch override over a user handler.                                 *)
(***************************************************************************)
Engine(hs, rpc, onMsg) == [handlers |-> hs, rpcMethodHandlers |-> rpc, onMsgHandler |-> onMsg]

DrainEngines ==
    { Engine(InitRpcHandlers(NilRpcMethodHandlers, HandleInstall(NoHandlers, 1, "h1")),
             HandleRpcMethodInstall(NilRpcMethodHandlers, NameA, "h2", "false"), "nil"),
      Engine(HandleInstall(HandleRpcCmdInstall(NoHandlers, 1, "h1", TRUE), 2, "h2"),
             NilRpcMethodHandlers, "nil"),
      Engine(HandleInstall(NoHandlers, 1, "h2"), NilRpcMethodHandlers, "h1") }

DrainMsgs ==
    { NewMessage(1, <<>>), NewMessage(2, <<>>), NewMessage(CmdPing, <<>>),
      NewRpcMessage(CmdRpcMethod, 11, <<9, 97, 1>>), NewRpcMessage(CmdRpcMethod, 11, <<1>>) }

InitDrain ==
    /\ running = TRUE
    /\ \E e \in DrainEngines :
          /\ handlers = e.handlers
          /\ rpcMethodHandlers = e.rpcMethodHandlers
          /\ onMsgHandler = e.onMsgHandler
    /\ wg = 0
    /\ fault = "none"
    /\ pc = [t \in Clients |-> "idle"]
    /\ cur = [t \in Clients |-> NewMessage(CmdPing2, <<>>)]
    /\ out = [t \in Clients |-> NoCall]
    /\ asyncBodies = 0
    /\ drain = "idle"
    /\ atFlip = [t \in Clients |-> "no"]
    /\ sockMaxPackLen = DefaultSockPackMaxLen
    /\ recvHandler = "nil"
    /\ recv = NoRecv
    /\ clients = {}
    /\ mu = "free"
    /\ bc = NoBroadCast
    /\ InitConn

NextDrain ==
    \/ \E t \in Clients, m \in DrainMsgs : OnMessageEnter(t, m)
    \/ \E t \in Clients : OnMessageDispatch(t)
    \/ \E t \in Clients, how \in {"normal", "panic"} : HandlerReturn(t, how)
    \/ \E t \in Clients : OverrideReturn(t)
    \/ AsyncFinish
    \/ DrainFlip
    \/ DrainWait

(* Handlers terminate, and the waiting drain routine is scheduled. *)
SpecDrain ==
    /\ InitDrain
    /\ [][NextDrain]_vars
    /\ \A t \in Clients : WF_vars(\E how \in {"normal", "panic"} : HandlerReturn(t, how))
    /\ WF_vars(DrainWait)

(***************************************************************************)
(* Properties.                                                             *)
(***************************************************************************)
ClosedCall == [NoCall EXCEPT !.gate = "closed"]

(* The call of connection t went through the gate and has been dispatched. *)
Dispatched(t) == out[t].gate = "open" /\ pc[t] \in {"handler", "override", "idle"}

(* The step is a step of connection t's OnMessage call. *)
StepOf(t) == out'[t] # out[t] \/ cur'[t] # cur[t] \/ pc'[t] # pc[t]

(* The keys of engine.handlers that a Handle or HandleRpcCmd call installed. *)
UserKeys(hs) == {c \in DOMAIN hs : hs[c].kind # "onRpcMethod"}

(* The four reserved codes: keepalive-ping, keepalive-ack, RPC-dispatch, RPC-error. *)
ReservedCodes == {CmdPing, CmdPing2, CmdRpcMethod, CmdRpcError}

ReservedFaults ==
    {"ErrorReservedCmdPing", "ErrorReservedCmdSetRealip", "ErrorReservedCmdRpcMethod",
     "ErrorReservedCmdRpcError", "ErrorReservedCmdInternal"}

(* The trailer of an RPC body as the wire format defines it: the last byte  *)
(* is the length L of the method name, the L bytes before it are the name,  *)
(* what precedes is the payload.                                            *)
TrailerLen(body) == body[Len(body)]

WellFormedRpc(body) ==
    /\ Len(body) >= 2
    /\ TrailerLen(body) \in 1..127
    /\ Len(body) - 1 >= TrailerLen(body)

RpcName(body) == [i \in 1..TrailerLen(body) |-> body[Len(body) - 1 - TrailerLen(body) + i]]

RpcPayload(body) == [i \in 1..(Len(body) - 1 - TrailerLen(body)) |-> body[i]]

(* C1: while the running flag is false, an OnMessage call of any connection *)
(* with any message leaves the connection's thread out of the dispatcher:   *)
(* it invokes no handler and no override, launches nothing, sends no reply  *)
(* and leaves the in-flight counter as it was.                              *)
C1_StoppedEngineDropsMessage ==
    [][\A t \in Clients :
          (~running /\ pc[t] = "idle") =>
              /\ pc'[t] = "idle"
              /\ StepOf(t) => (out'[t] = ClosedCall /\ wg' = wg /\ asyncBodies' = asyncBodies)]_vars

(* A message for a registered command was dropped at the gate while a       *)
(* dispatch override is installed.                                          *)
C1_Witness ==
    \E t \in Clients :
        /\ ~running
        /\ out[t] = ClosedCall
        /\ cur[t].cmd \in DOMAIN handlers
        /\ onMsgHandler # "nil"

(* C2, as claimed: no key a registration installed is one of the four       *)
(* reserved codes or a code at or above CmdUserMax.                         *)
C2_NoKeyAtOrAboveCeiling ==
    \A c \in UserKeys(handlers) : c \notin ReservedCodes /\ c < CmdUserMax

(* C2, amended: Handle and HandleRpcCmd fail for each of the four reserved  *)
(* codes and for every code above CmdUserMax, installing nothing; no key a  *)
(* registration installed is a reserved code or above CmdUserMax.           *)
C2_ReservedAndAboveCeilingRejected ==
    /\ [](\A c \in UserKeys(handlers) : c \notin ReservedCodes /\ c <= CmdUserMax)
    /\ [](\A c \in Cmds, h \in HandlerIds, a \in BOOLEAN :
            (c \in ReservedCodes \/ c > CmdUserMax) =>
                /\ HandleFault(handlers, c) \in ReservedFaults
                /\ HandleInstall(handlers, c, h) = handlers
                /\ HandleRpcCmdFault(handlers, c) \in ReservedFaults
                /\ HandleRpcCmdInstall(handlers, c, h, a) = handlers)
    /\ [][fault' \in ReservedFaults => handlers' = handlers]_vars

(* A registration failed on a reserved code while CmdUserMax itself is a    *)
(* registered command.                                                      *)
C2_Witness == fault \in ReservedFaults /\ CmdUserMax \in DOMAIN handlers

(* C3: a command that has a handler cannot be registered again, by Handle   *)
(* or by HandleRpcCmd: the call fails with the fault that the handler       *)
(* exists, no entry of engine.handlers ever changes, and a message with     *)
(* that command goes to the handler registered first.                       *)
C3_DuplicateCommandRejected ==
    /\ [](\A c \in UserKeys(handlers), h \in HandlerIds, a \in BOOLEAN :
            /\ HandleFault(handlers, c) = "HandleExists"
            /\ HandleInstall(handlers, c, h) = handlers
            /\ HandleRpcCmdFault(handlers, c) = "HandleRpcCmdExists"
            /\ HandleRpcCmdInstall(handlers, c, h, a) = handlers)
    /\ [][/\ \A c \in DOMAIN handlers : c \in DOMAIN handlers' /\ handlers'[c] = handlers[c]
          /\ fault' \in {"HandleExists", "HandleRpcCmdExists"} => handlers' = handlers]_vars
    /\ [](\A t \in Clients :
            (Dispatched(t) /\ onMsgHandler = "nil" /\ cur[t].cmd \in UserKeys(handlers)) =>
                LET h == handlers[cur[t].cmd]
                    call == Invocation(h.kind, h.fn, <<>>, t, cur[t])
                IN  IF h.async
                    THEN out[t].invoked = <<>> /\ out[t].launched = <<call>>
                    ELSE out[t].invoked = <<call>> /\ out[t].launched = <<>>)

(* HandleRpcCmd failed on a command below CmdUserMax that Handle registered. *)
C3_Witness ==
    /\ fault = "HandleRpcCmdExists"
    /\ \E c \in 1..(CmdUserMax - 1) : c \in DOMAIN handlers /\ handlers[c].kind = "user"

(* C4: a method that has a handler cannot be registered again: the call     *)
(* HandleRpcMethod fails with the fault that the method exists and leaves   *)
(* engine.rpcMethodHandlers and engine.handlers as they were; no entry of   *)
(* the method table ever changes, and an RPC message naming the method goes *)
(* to the handler registered first.                                         *)
C4_DuplicateMethodRejected ==
    /\ [](\A m \in DOMAIN rpcMethodHandlers.tab, h \in HandlerIds, args \in AsyncArgs :
            /\ HandleRpcMethodFault(rpcMethodHandlers, m) = "HandleRpcMethodExists"
            /\ HandleRpcMethodInstall(rpcMethodHandlers, m, h, args) = rpcMethodHandlers
            /\ InitRpcHandlers(rpcMethodHandlers, handlers) = handlers)
    /\ [][/\ \A m \in DOMAIN rpcMethodHandlers.tab :
                /\ m \in DOMAIN rpcMethodHandlers'.tab
                /\ rpcMethodHandlers'.tab[m] = rpcMethodHandlers.tab[m]
          /\ fault' = "HandleRpcMethodExists" =>
                (rpcMethodHandlers' = rpcMethodHandlers /\ handlers' = handlers)]_vars
    /\ [](\A t \in Clients :
            (/\ Dispatched(t) /\ onMsgHandler = "nil" /\ cur[t].cmd = CmdRpcMethod
             /\ WellFormedRpc(Body(cur[t]))
             /\ RpcName(Body(cur[t])) \in DOMAIN rpcMethodHandlers.tab) =>
                LET h == rpcMethodHandlers.tab[RpcName(Body(cur[t]))]
                    calls == out[t].invoked \o out[t].launched
                IN  Len(calls) = 1 /\ calls[1].kind = "rpc" /\ calls[1].fn = h.fn)

(* A second HandleRpcMethod for a registered method has failed. *)
C4_Witness ==
    /\ fault = "HandleRpcMethodExists"
    /\ rpcMethodHandlers.tab # [m \in {} |-> 0]

(* The call of connection t was handed to the engine's own dispatcher. *)
EngineDispatched(t) == Dispatched(t) /\ onMsgHandler = "nil"

(* m is an error reply to msg on the reserved error command. *)
IsRpcErrorReply(m, msg) == m.cmd = CmdRpcError /\ m.rpcSeq = msg.rpcSeq

(* C6, as claimed: whatever was registered, an RPC message with a body of   *)
(* fewer than 2 bytes that the engine dispatches gets exactly one error     *)
(* reply on CmdRpcError with its sequence number, and no handler runs.      *)
C6_ShortRpcBodyAlwaysAnswered ==
    \A t \in Clients :
        (EngineDispatched(t) /\ cur[t].cmd = CmdRpcMethod /\ Len(Body(cur[t])) < 2) =>
            /\ Len(out[t].sent) = 1
            /\ IsRpcErrorReply(out[t].sent[1], cur[t])
            /\ out[t].invoked = <<>> /\ out[t].launched = <<>>

(* C6, amended: once an RPC method has been registered, which binds         *)
(* CmdRpcMethod to the sub-dispatcher, an RPC message with a body of fewer  *)
(* than 2 bytes that the engine dispatches gets exactly one error reply on  *)
(* CmdRpcError with its sequence number, and no handler runs.               *)
C6_ShortRpcBodyAnsweredOnceBound ==
    \A t \in Clients :
        (/\ EngineDispatched(t) /\ cur[t].cmd = CmdRpcMethod /\ Len(Body(cur[t])) < 2
         /\ ~rpcMethodHandlers.nil) =>
            /\ Len(out[t].sent) = 1
            /\ IsRpcErrorReply(out[t].sent[1], cur[t])
            /\ out[t].invoked = <<>> /\ out[t].launched = <<>>
            /\ pc[t] = "idle"

(* An RPC message with a 1-byte body and sequence number 12 was answered    *)
(* while a method is registered.                                            *)
C6_Witness ==
    \E t \in Clients :
        /\ EngineDispatched(t) /\ cur[t].cmd = CmdRpcMethod /\ Len(Body(cur[t])) = 1
        /\ cur[t].rpcSeq = 12
        /\ rpcMethodHandlers.tab # [m \in {} |-> 0]
        /\ Len(out[t].sent) = 1

(* C7: an RPC message whose trailer is well formed and names a registered   *)
(* method makes the sub-dispatcher call that method's handler once, with    *)
(* the method name, the connection and the message cut down to its payload, *)
(* and send no error reply.                                                 *)
C7_RpcHandlerGetsPayload ==
    \A t \in Clients :
        (/\ EngineDispatched(t) /\ cur[t].cmd = CmdRpcMethod
         /\ WellFormedRpc(Body(cur[t]))
         /\ RpcName(Body(cur[t])) \in DOMAIN rpcMethodHandlers.tab) =>
            LET body == Body(cur[t])
                h == rpcMethodHandlers.tab[RpcName(body)]
                calls == out[t].invoked \o out[t].launched
            IN  /\ Len(calls) = 1
                /\ calls[1].kind = "rpc" /\ calls[1].fn = h.fn
                /\ calls[1].method = RpcName(body)
                /\ calls[1].client = t
                /\ Body(calls[1].msg) = RpcPayload(body)
                /\ Len(Body(calls[1].msg)) = Len(body) - (TrailerLen(body) + 1)
                /\ calls[1].msg.cmd = cur[t].cmd /\ calls[1].msg.rpcSeq = cur[t].rpcSeq
                /\ out[t].sent = <<>>

(* The handler of method "a" runs with the one payload byte of the message. *)
C7_Witness ==
    \E t \in Clients :
        /\ pc[t] = "handler"
        /\ Body(cur[t]) = <<9, 97, 1>>
        /\ Len(out[t].invoked) = 1
        /\ out[t].invoked[1].method = NameA
        /\ Body(out[t].invoked[1].msg) = <<9>>

(* C9, as claimed: whenever the flag was read true, a keepalive-ping gets   *)
(* exactly one ping-acknowledged reply, with no lookup in engine.handlers,  *)
(* no handler invoked and no Add or Done on the in-flight counter.          *)
C9_PingAlwaysAcknowledged ==
    \A t \in Clients :
        (Dispatched(t) /\ cur[t].cmd = CmdPing) =>
            /\ out[t].sent = <<ping2Msg>>
            /\ out[t].lookups = 0
            /\ out[t].invoked = <<>> /\ out[t].launched = <<>>
            /\ out[t].adds = 0 /\ out[t].dones = 0

(* C9, amended: whenever the flag was read true and no dispatch override is *)
(* installed, a keepalive-ping gets exactly one ping-acknowledged reply,    *)
(* with no lookup in engine.handlers, no handler invoked and no Add or Done *)
(* on the in-flight counter.                                                *)
C9_PingAcknowledgedWithoutOverride ==
    \A t \in Clients :
        (EngineDispatched(t) /\ cur[t].cmd = CmdPing) =>
            /\ out[t].sent = <<ping2Msg>>
            /\ out[t].lookups = 0
            /\ out[t].invoked = <<>> /\ out[t].launched = <<>>
            /\ out[t].adds = 0 /\ out[t].dones = 0
            /\ pc[t] = "idle"

(* A ping was acknowledged by an engine that has handlers registered. *)
C9_Witness ==
    \E t \in Clients :
        /\ EngineDispatched(t) /\ cur[t].cmd = CmdPing
        /\ out[t].sent = <<ping2Msg>>
        /\ DOMAIN handlers # {}

(* C5: RecvMsg without a receive override, given a header that declares a   *)
(* body of n > 0 bytes: when the header length plus n is greater than       *)
(* engine.sockMaxPackLen the call returns no message, allocates no body     *)
(* buffer, reads no body and does not call Decrypt; when it is equal to     *)
(* engine.sockMaxPackLen the check passes: the second deadline is set, the  *)
(* body buffer of n bytes is read into, and a frame that is read and        *)
(* decrypted is delivered.                                                  *)
C5_OversizeFrameRejected ==
    (recv.called /\ ~recv.res.override /\ recv.in.n > 0) =>
        /\ DEFAULT_MESSAGE_HEAD_LEN + recv.in.n > recv.maxPackLen =>
              /\ ~recv.res.delivered
              /\ recv.res.alloc = 0
              /\ recv.res.bodyReads = 0
              /\ recv.res.decrypts = 0
              /\ recv.res.deadlines = 1
        /\ (DEFAULT_MESSAGE_HEAD_LEN + recv.in.n = recv.maxPackLen
               /\ recv.in.dl1 = "ok" /\ recv.in.head = "ok") =>
              /\ recv.res.deadlines = 2
              /\ recv.in.dl2 = "ok" => (recv.res.alloc = recv.in.n /\ recv.res.bodyReads = 1)
              /\ (recv.in.dl2 = "ok" /\ recv.in.body = "ok" /\ recv.in.dec = "ok") =>
                    (recv.res.delivered /\ recv.res.rawLen = recv.maxPackLen)

(* A header was read that declares a body one byte longer than a maximum    *)
(* that admits shorter bodies, and nothing was delivered.                   *)
C5_Witness ==
    /\ recv.called /\ ~recv.res.override
    /\ recv.in.dl1 = "ok" /\ recv.in.head = "ok"
    /\ recv.maxPackLen > DEFAULT_MESSAGE_HEAD_LEN
    /\ DEFAULT_MESSAGE_HEAD_LEN + recv.in.n = recv.maxPackLen + 1
    /\ recv.res.headReads = 1 /\ ~recv.res.delivered

(* C8: BroadCast makes exactly one SendMsg attempt for every connection in  *)
(* engine.clients and none for any other, whether or not an attempt fails;  *)
(* from its Lock to its Unlock the lock is BroadCast's and engine.clients    *)
(* is what it was at the Lock; when BroadCast has returned the lock is free. *)
C8_BroadCastReachesEveryClient ==
    /\ bc.state = "sending" =>
          /\ mu = "BroadCast"
          /\ clients = bc.snapshot
          /\ \A c \in Conns : bc.attempts[c] = IF c \in bc.visited THEN 1 ELSE 0
          /\ bc.visited \subseteq bc.snapshot
    /\ bc.state = "done" =>
          /\ \A c \in Conns : bc.attempts[c] = IF c \in bc.snapshot THEN 1 ELSE 0
          /\ bc.failed \subseteq bc.snapshot
    /\ bc.state # "sending" => mu = "free"

(* A broadcast to three connections has returned; one send failed. *)
C8_Witness ==
    /\ bc.state = "done"
    /\ bc.snapshot = Conns
    /\ Cardinality(bc.failed) = 1
    /\ \A c \in Conns : bc.attempts[c] = 1
    /\ mu = "free"

(* The connections whose synchronous handler is executing: Add(1) was       *)
(* called for it and its deferred Done() has not run.                       *)
Executing == {t \in Clients : pc[t] = "handler"}

(* C10: the in-flight counter is the number of synchronous handlers that    *)
(* are executing, and is never negative; the drain routine's wait returns   *)
(* only when every handler that was executing when the flag was cleared has *)
(* returned; a step of the drain routine changes no connection's call, and  *)
(* a handler leaves execution only by returning or panicking, with its      *)
(* Done(); and, handlers terminating, the wait returns.                     *)
C10_DrainWaitsForHandlers ==
    /\ [](wg = Cardinality(Executing) /\ wg >= 0)
    /\ [](drain = "done" => \A t \in Clients : atFlip[t] # "executing")
    /\ [][drain' # drain => (pc' = pc /\ out' = out /\ cur' = cur /\ wg' = wg)]_vars
    /\ [][\A t \in Clients :
            (pc[t] = "handler" /\ pc'[t] # "handler") =>
                /\ out'[t].returned \in {"normal", "panic"}
                /\ out'[t].dones = 1
                /\ wg' = wg - 1]_vars
    /\ (drain = "waiting") ~> (drain = "done")

(* The wait has returned; every connection's handler was executing when the *)
(* flag was cleared, and has returned.                                      *)
C10_Witness ==
    /\ drain = "done"
    /\ \A t \in Clients : atFlip[t] = "returned"
    /\ wg = 0

(* The call of connection t is dispatched as the tables of the engine say,  *)
(* whatever calls came before it.                                           *)
DispatchedNormally(t) ==
    LET e == Dispatch(onMsgHandler, handlers, rpcMethodHandlers, t, cur[t]) IN
    /\ out[t].invoked = e.invoked
    /\ out[t].launched = e.launched
    /\ out[t].sent = e.sent
    /\ out[t].adds = Adds(handlers, onMsgHandler, cur[t])

(* C11: when a synchronous handler, a command handler or an RPC method      *)
(* handler, panics, OnMessage returns to its caller: the connection's       *)
(* thread is ready for its next message, Done() has run exactly once for    *)
(* the one Add(1), the connection is not stopped, the running flag and the  *)
(* handler tables are unchanged and no other connection's call is touched;  *)
(* and every call, after a fault or not, is dispatched as the tables say.   *)
C11_HandlerFaultIsolated ==
    /\ [][\A t \in Clients :
            (pc[t] = "handler" /\ out'[t].returned = "panic") =>
                /\ pc'[t] = "idle"
                /\ wg' = wg - 1
                /\ out'[t].adds = 1 /\ out'[t].dones = 1
                /\ UNCHANGED <<running, handlers, rpcMethodHandlers, onMsgHandler, stopped>>
                /\ \A u \in Clients \ {t} : pc'[u] = pc[u] /\ out'[u] = out[u]]_vars
    /\ [](\A t \in Clients : Dispatched(t) => DispatchedNormally(t))
    /\ [](\A t \in Clients : pc[t] \in {"idle", "dispatch", "handler", "override"})

(* A handler of one connection has panicked, an RPC method handler, and the *)
(* handler of the other connection is executing.                            *)
C11_Witness ==
    \E t \in Clients, u \in Clients :
        /\ t # u
        /\ out[t].returned = "panic" /\ pc[t] = "idle"
        /\ out[t].invoked # <<>> /\ out[t].invoked[1].kind = "rpc"
        /\ pc[u] = "handler" /\ wg = 1
        /\ running

(* C12: Send without a send override returns no error exactly when          *)
(* SetWriteDeadline succeeded and the one Write returned no error and       *)
(* len(data) bytes; in every other case it calls client.Stop() and returns  *)
(* an error; it sets one deadline and writes at most once, and not at all   *)
(* when the deadline failed; a Send that succeeds stops no connection.      *)
C12_SendAllOrStop ==
    /\ [](send.called /\ ~send.res.override =>
            /\ send.res.err = "nil" <=>
                  (send.in.dl = "ok" /\ send.in.werr = "ok" /\ send.in.nwrite = Len(send.data))
            /\ send.res.err # "nil" => (send.res.stops /\ send.client \in stopped)
            /\ send.res.err = "nil" => ~send.res.stops
            /\ send.res.deadlines = 1
            /\ send.res.writes = IF send.in.dl = "ok" THEN 1 ELSE 0)
    /\ [][(send'.called /\ ~send'.res.override /\ send'.res.err = "nil") =>
            stopped' = stopped]_vars
    /\ [][stopped' \subseteq stopped \cup {send'.client}]_vars

(* A write of fewer bytes than len(data), without an error, stopped the     *)
(* connection, while the other connection is not stopped.                   *)
C12_Witness ==
    /\ send.called /\ ~send.res.override
    /\ send.in.dl = "ok" /\ send.in.werr = "ok"
    /\ Len(send.data) = 2 /\ send.in.nwrite = 1
    /\ send.res.err = "ErrTcpClientWriteHalf"
    /\ stopped = {send.client}

(* The socket options in the order of the contract, and those that apply    *)
(* under a keepalive setting: the period only when keepalive is enabled.    *)
OptionOrder ==
    <<"SetNoDelay", "SetKeepAlive", "SetKeepAlivePeriod", "SetReadBuffer", "SetWriteBuffer",
      "SetLinger">>

Applicable(keepalive) ==
    SelectSeq(OptionOrder, LAMBDA o : keepalive \/ o # "SetKeepAlivePeriod")

(* C13: OnNewConn without a new-connection override applies the options in  *)
(* the fixed order, the keepalive period only when keepalive is enabled; it *)
(* stops at the first option that fails, closes the connection and returns  *)
(* that option's error; it closes the connection only then, and returns no  *)
(* error only when every applicable option succeeded.  With an override it  *)
(* applies no option, does not close, and returns the override's result.    *)
C13_SocketOptionsInOrder ==
    newconn.called =>
        LET r == newconn.res
            order == Applicable(newconn.keepalive)
            n == Len(r.applied)
        IN  IF r.override
            THEN r.applied = <<>> /\ ~r.closed /\ r.err = newconn.ret
            ELSE /\ n \in 1..Len(order)
                 /\ r.applied = SubSeq(order, 1, n)
                 /\ \A i \in 1..(n - 1) : r.applied[i] \notin newconn.fails
                 /\ IF \E i \in 1..Len(order) : order[i] \in newconn.fails
                    THEN r.applied[n] \in newconn.fails /\ r.closed /\ r.err = r.applied[n]
                    ELSE n = Len(order) /\ ~r.closed /\ r.err = "nil"

(* Keepalive is enabled and its period was the first option to fail, while  *)
(* a later option would have failed too: the connection was closed after    *)
(* three options.                                                           *)
C13_Witness ==
    /\ newconn.called /\ ~newconn.res.override
    /\ newconn.keepalive
    /\ newconn.fails = {"SetKeepAlivePeriod", "SetLinger"}
    /\ newconn.res.applied = <<"SetNoDelay", "SetKeepAlive", "SetKeepAlivePeriod">>
    /\ newconn.res.closed /\ newconn.res.err = "SetKeepAlivePeriod"

(* The call of connection t is an RPC message that reached onRpcMethod. *)
RpcDispatched(t) ==
    EngineDispatched(t) /\ cur[t].cmd = CmdRpcMethod /\ ~rpcMethodHandlers.nil

(* The call of connection t got the one error reply with this text, called  *)
(* and launched no handler, left the body as it was, and has returned.      *)
RpcRejected(t, text) ==
    /\ Len(out[t].sent) = 1
    /\ IsRpcErrorReply(out[t].sent[1], cur[t])
    /\ out[t].sent[1].data = text
    /\ out[t].invoked = <<>> /\ out[t].launched = <<>>
    /\ onRpcMethodData(rpcMethodHandlers, cur[t]) = cur[t].data
    /\ pc[t] = "idle"

(* C14: an RPC message with a body of 2 bytes or more whose length byte L   *)
(* is not in 1..127, or with fewer than L bytes before the length byte,     *)
(* gets exactly one error reply on CmdRpcError with its sequence number,    *)
(* stating the length; no method handler runs and the body is not           *)
(* truncated.  A body with L in 1..127 and L bytes or more before the       *)
(* length byte does not get that reply.                                     *)
C14_InvalidMethodLengthRejected ==
    \A t \in Clients :
        (RpcDispatched(t) /\ Len(Body(cur[t])) >= 2) =>
            LET body == Body(cur[t])
                L == TrailerLen(body)
                text == ErrText("invalid rpc method length", <<L>>)
            IN  IF L \notin 1..127 \/ Len(body) - 1 < L
                THEN RpcRejected(t, text)
                ELSE \A i \in 1..Len(out[t].sent) : out[t].sent[i].data # text

(* A length byte of 128 with 128 bytes before it was rejected while the     *)
(* method of 127 bytes, a suffix of what precedes the length byte, is       *)
(* registered.                                                              *)
C14_Witness ==
    \E t \in Clients :
        /\ RpcDispatched(t)
        /\ Body(cur[t]) = Rep(97, 128) \o <<128>>
        /\ Name127 \in DOMAIN rpcMethodHandlers.tab
        /\ Len(out[t].sent) = 1 /\ out[t].invoked = <<>>

(* C15: a well-formed RPC message whose method has no handler gets exactly  *)
(* one error reply on CmdRpcError with its sequence number, naming the      *)
(* method; no method handler runs and the body is not truncated.  In each   *)
(* of the three rejections, short body, invalid length and unknown method,  *)
(* OnMessage has returned with as many Done() as Add(1), the connection is  *)
(* not stopped, and every call is dispatched as the tables say.             *)
C15_UnknownMethodRejected ==
    \A t \in Clients :
        /\ (RpcDispatched(t) /\ WellFormedRpc(Body(cur[t]))
               /\ RpcName(Body(cur[t])) \notin DOMAIN rpcMethodHandlers.tab) =>
              RpcRejected(t, ErrText("invalid rpc method", RpcName(Body(cur[t]))))
        /\ (RpcDispatched(t)
               /\ (WellFormedRpc(Body(cur[t])) =>
                     RpcName(Body(cur[t])) \notin DOMAIN rpcMethodHandlers.tab)) =>
              /\ pc[t] = "idle"
              /\ out[t].adds = 1 /\ out[t].dones = 1
              /\ t \notin stopped
        /\ Dispatched(t) => DispatchedNormally(t)

(* The method "ba" was called while only "a" is registered. *)
C15_Witness ==
    \E t \in Clients :
        /\ RpcDispatched(t)
        /\ Body(cur[t]) = <<98, 97, 2>>
        /\ DOMAIN rpcMethodHandlers.tab = {NameA}
        /\ Len(out[t].sent) = 1
        /\ out[t].sent[1].data = ErrText("invalid rpc method", <<98, 97>>)

(* C16: one OnDisconnected call runs the hooks registered before it, each   *)
(* registration once, in the order of registration, whichever of them       *)
(* panic; no panic leaves OnDisconnected; and HandleDisconnected keeps the  *)
(* hooks registered before and adds its own after them.                     *)
C16_DisconnectHooksInOrder ==
    /\ [](disc.called => (disc.run.trace = disc.chain /\ ~disc.run.panicked))
    /\ [][/\ Len(onDisconnectedHandler') >= Len(onDisconnectedHandler)
           /\ SubSeq(onDisconnectedHandler', 1, Len(onDisconnectedHandler))
                 = onDisconnectedHandler]_vars
    /\ [][disc' # disc => disc'.chain = onDisconnectedHandler]_vars

(* Three hooks ran in the order of their registration although the first    *)
(* two panicked.                                                            *)
C16_Witness ==
    /\ disc.called
    /\ disc.chain = <<"d2", "d1", "d3">>
    /\ disc.faulty = {"d2", "d1"}
    /\ disc.run.trace = <<"d2", "d1", "d3">>

C18_RecvDeliversIffAllSucceed ==
    (recv.called /\ ~recv.res.override) =>
        LET in == recv.in
            r == recv.res
            headOk == in.dl1 = "ok" /\ in.head = "ok"
            bodyOk == in.n > 0 =>
                        /\ DEFAULT_MESSAGE_HEAD_LEN + in.n <= recv.maxPackLen
                        /\ in.dl2 = "ok" /\ in.body = "ok"
        IN  /\ r.delivered <=> (headOk /\ bodyOk /\ in.dec = "ok")
            /\ r.delivered => r.rawLen = DEFAULT_MESSAGE_HEAD_LEN + in.n
            /\ (headOk /\ in.n = 0) =>
                  (r.bodyReads = 0 /\ r.alloc = 0 /\ r.deadlines = 1 /\ r.decrypts = 1)
            /\ r.decrypts = IF headOk /\ bodyOk THEN 1 ELSE 0
            /\ r.bodyReads <= 1 /\ r.headReads <= 1

(* A frame of the header alone was delivered by an engine whose maximum     *)
(* packet length is 0: the body was not read.                               *)
C18_Witness ==
    /\ recv.called /\ ~recv.res.override
    /\ recv.in.n = 0 /\ recv.maxPackLen = 0
    /\ recv.res.delivered /\ recv.res.rawLen = DEFAULT_MESSAGE_HEAD_LEN
    /\ recv.res.bodyReads = 0 /\ recv.res.decrypts = 1

(* C19: once the wait of the drain routine has returned, no synchronous     *)
(* handler is executing, in that state or in any later one.  A call that    *)
(* read the running flag true before it was cleared, and reaches Add(1)     *)
(* after the wait found the counter at zero, starts its handler then.       *)
C19_NoHandlerAfterDrain == drain = "done" => Executing = {}

(* C20: a message whose handler was registered with the asynchronous flag   *)
(* true has the body launched with util.Go, and OnMessage returns with as   *)
(* many Done() as Add(1), no handler having run on its thread; a message    *)
(* whose handler was registered with the flag false, or by HandleRpcMethod  *)
(* with no flag or with an argument that is not a bool, has the handler     *)
(* called on the thread of OnMessage, which returns only when the handler   *)
(* has, the counter counting it from Add(1) to Done().  The flag a          *)
(* registration is given is the one the handler is installed with.          *)
C20_AsyncLaunchedSyncCounted ==
    /\ [](\A t \in Clients :
            (EngineDispatched(t) /\ cur[t].cmd \notin {CmdPing, CmdPing2}
               /\ cur[t].cmd \in DOMAIN handlers) =>
                LET h == handlers[cur[t].cmd]
                    body == Body(cur[t])
                    isRpc == h.kind = "onRpcMethod"
                    found == isRpc /\ WellFormedRpc(body)
                               /\ RpcName(body) \in DOMAIN rpcMethodHandlers.tab
                    async == IF isRpc THEN found /\ rpcMethodHandlers.tab[RpcName(body)].async
                             ELSE h.async
                    sync == IF isRpc THEN found /\ ~rpcMethodHandlers.tab[RpcName(body)].async
                            ELSE ~h.async
                IN  /\ async =>
                          /\ Len(out[t].launched) = 1 /\ out[t].invoked = <<>>
                          /\ pc[t] = "idle" /\ out[t].returned = "no"
                          /\ out[t].adds = 1 /\ out[t].dones = 1
                    /\ sync =>
                          /\ Len(out[t].invoked) = 1 /\ out[t].launched = <<>>
                          /\ out[t].adds = 1
                          /\ \/ pc[t] = "handler" /\ out[t].returned = "no" /\ out[t].dones = 0
                             \/ pc[t] = "idle" /\ out[t].returned # "no" /\ out[t].dones = 1)
    /\ [](wg = Cardinality(Executing))
    /\ [][rpcMethodHandlers' # rpcMethodHandlers =>
            \A m \in MethodNames, h \in HandlerIds, a \in AsyncArgs :
                HandleRpcMethod(m, h, a) =>
                    rpcMethodHandlers'.tab[m] = [fn |-> h, async |-> (a = "true")]]_vars
    /\ [][handlers' # handlers =>
            \A c \in Cmds, h \in HandlerIds, a \in BOOLEAN :
                HandleRpcCmd(c, h, a) =>
                    handlers'[c] = [kind |-> "rpccmd", fn |-> h, async |-> a]]_vars

(* The wait of the drain routine has returned while a body launched by an   *)
(* asynchronous RPC method handler is still running.                        *)
C20_Witness ==
    /\ drain = "done" /\ wg = 0
    /\ asyncBodies > 0
    /\ \E t \in Clients :
          /\ Len(out[t].launched) = 1
          /\ out[t].launched[1].kind = "rpc"
          /\ pc[t] = "idle"

====
